---- MODULE Spec2Model ----
(***************************************************************************)
(* hermes-peer-score: the historical-reports pipeline.                     *)
(*                                                                         *)
(*   scripts/generate_index.py    (the Indexer)  scans reports/, keeps the *)
(*       reports of the last 28 days, sorts them, renders the index and    *)
(*       writes reports-manifest.json.                                     *)
(*   scripts/download_reports.py  (the Fetcher)  reads a manifest and      *)
(*       CUTOFF_DATE, and downloads the listed files with curl.            *)
(*                                                                         *)
(* Text is modelled as a sequence of pieces, so that concatenation,        *)
(* str.replace, startswith/endswith, strptime/strftime and string          *)
(* comparison are computed the way the code computes them.  A piece is a   *)
(* record [k, d, t]: k names the piece, d and t are the day and the time   *)
(* of day of the pieces that carry a date.  Days and times of day are      *)
(* small integers; a zero-padded date or timestamp orders as its (d, t).   *)
(***************************************************************************)
EXTENDS Integers, Sequences, FiniteSets, TLC

(* ------------------------------ bounds -------------------------------- *)

\* the largest number of report files the glob discovers
MaxFiles == 2

\* the largest number of report entries of a hand-written manifest
MaxEntries == 2

(* ------------------------- program constants -------------------------- *)

\* timedelta(days=28)
RetentionDays == 28

(* ------------------------------- text --------------------------------- *)

Lit(k) == [k |-> k, d |-> 0, t |-> 0]

\* 'YYYY-MM-DD_HH-MM-SS' of day d, time of day t
TsPiece(d, t) == [k |-> "ts", d |-> d, t |-> t]

\* 'YYYY-MM-DD' of day d
DatePiece(d) == [k |-> "date", d |-> d, t |-> 0]

\* 'Month DD, YYYY at HH:MM' of day d, time of day t
LongPiece(d, t) == [k |-> "long", d |-> d, t |-> t]

PrefixLabels == {"delegated-", "independent-"}

SuffixLabels == <<"-delegated", "-independent">>

\* str.replace(piece, ''): every occurrence goes
Replace(s, k) == SelectSeq(s, LAMBDA p : p.k # k)

StartsWith(s, k) == Len(s) > 0 /\ s[1].k = k

EndsWith(s, k) == Len(s) > 0 /\ s[Len(s)].k = k

\* the order of the first characters: '-' < '.' < digits < letters
PieceRank(p) ==
    CASE p.k = "-data.js"           -> 0
      [] p.k = "-delegated"         -> 1
      [] p.k = "-independent"       -> 1
      [] p.k = ".html"              -> 2
      [] p.k = ".json"              -> 3
      [] p.k \in {"ts", "date"}     -> 4
      [] p.k = "delegated-"         -> 5
      [] p.k = "independent-"       -> 6
      [] p.k = "junk"               -> 7
      [] p.k = "long"               -> 8
      [] p.k = "peer-score-report-" -> 9
      [] OTHER                      -> 10

\* pieces of one rank differ in a later character, or in their date
PieceLess(p, q) ==
    \/ PieceRank(p) < PieceRank(q)
    \/ /\ PieceRank(p) = PieceRank(q)
       /\ \/ p.k = "-delegated" /\ q.k = "-independent"
          \/ p.k = q.k /\ p.d < q.d
          \/ p.k = q.k /\ p.d = q.d /\ p.t < q.t

\* Python's str < str: the first differing piece decides, a proper prefix is less
RECURSIVE StrLess(_, _)
StrLess(a, b) ==
    IF Len(b) = 0 THEN FALSE
    ELSE IF Len(a) = 0 THEN TRUE
    ELSE IF a[1] = b[1] THEN StrLess(Tail(a), Tail(b))
    ELSE PieceLess(a[1], b[1])

(* --------------------------- dates and times --------------------------- *)

\* datetime < datetime
TimeLess(a, b) == a.d < b.d \/ (a.d = b.d /\ a.t < b.t)

\* datetime.strptime(s, '%Y-%m-%d_%H-%M-%S'): <<>> stands for ValueError
StrptimeTimestamp(s) ==
    IF Len(s) = 1 /\ s[1].k = "ts" THEN <<[d |-> s[1].d, t |-> s[1].t]>> ELSE <<>>

\* datetime.strptime(s, '%Y-%m-%d'): <<>> stands for the exception raised
StrptimeDate(s) ==
    IF Len(s) = 1 /\ s[1].k = "date" THEN <<[d |-> s[1].d, t |-> 0]>> ELSE <<>>

\* report_date.strftime('%Y-%m-%d')
StrftimeDate(ts) == <<DatePiece(ts.d)>>

\* report_date.strftime('%B %d, %Y at %H:%M')
StrftimeLong(ts) == <<LongPiece(ts.d, ts.t)>>

(* ------------------------------- paths --------------------------------- *)

\* a path is [dir, name]: the directories below the root, and the file's name
Path(dir, name) == [dir |-> dir, name |-> name]

\* f"{a}/{b}" of a directory name and a file name
Join(a, b) == Path(<<a>>, b)

\* Path('reports'): the root the Indexer scans, itself named 'reports'
ReportsDirName == <<Lit("reports")>>

\* json_file.parent.name
ParentName(p) == IF Len(p.dir) = 0 THEN ReportsDirName ELSE p.dir[Len(p.dir)]

\* json_file.with_suffix('.html'): the last suffix is replaced
WithSuffixHtml(p) ==
    Path(p.dir, SubSeq(p.name, 1, Len(p.name) - 1) \o <<Lit(".html")>>)

\* f"peer-score-report-{stem}.json", and the two companions
JsonName(stem) == <<Lit("peer-score-report-")>> \o stem \o <<Lit(".json")>>

HtmlName(stem) == <<Lit("peer-score-report-")>> \o stem \o <<Lit(".html")>>

JsName(stem) == <<Lit("peer-score-report-")>> \o stem \o <<Lit("-data.js")>>

\* reports_dir.glob('**/peer-score-report-*.json') matches this name
GlobMatches(name) ==
    Len(name) >= 2 /\ StartsWith(name, "peer-score-report-") /\ EndsWith(name, ".json")

(* ---------------------------- dictionaries ----------------------------- *)

\* dict.get(key, default)
Get(r, key, default) == IF key \in DOMAIN r THEN r[key] ELSE default

Range(s) == {s[i] : i \in DOMAIN s}

(* --------------------------- the Indexer ------------------------------- *)

\* round(n / m, 1), kept in tenths (the inputs of the model divide evenly, so
\* no rounding mode is exercised)
Tenths(n, m) == (n * 10) \div m

NanosPerSecond == 1000000000

\* parse_report_metadata: <<>> stands for None, returned on any exception
\* (the file does not parse as JSON, or the JSON is not an object)
ParseReportMetadata(content) ==
    IF content.kind # "object" THEN <<>>
    ELSE LET data == content.data
             total_connections == Get(data, "total_connections", 0)
             successful_handshakes == Get(data, "successful_handshakes", 0)
             duration == Get(data, "duration", 0)
         IN  <<[unique_peers |-> Get(data, "peers", 0),
                total_connections |-> total_connections,
                successful_handshakes |-> successful_handshakes,
                success_rate |-> IF total_connections > 0
                                 THEN Tenths(successful_handshakes * 100, total_connections)
                                 ELSE 0,
                test_duration |-> IF duration # 0
                                  THEN duration \div (NanosPerSecond \div 10)
                                  ELSE 0,
                has_ai_analysis |-> Get(data, "ai_analysis", FALSE),
                validation_mode |-> Get(data, "validation_mode", "delegated"),
                hermes_version |->
                    Get(Get(data, "validation_config", [none |-> 0]),
                        "hermes_version", "unknown")]>>

\* filename.replace('peer-score-report-', '').replace('.json', '')
TimestampPart(filename) == Replace(Replace(filename, "peer-score-report-"), ".json")

\* the first of -delegated, -independent that ends the token is cut off
StripSuffix(tp) ==
    IF EndsWith(tp, SuffixLabels[1]) \/ EndsWith(tp, SuffixLabels[2])
    THEN SubSeq(tp, 1, Len(tp) - 1)
    ELSE tp

\* a leading delegated- or independent- is cut off; only without one is a
\* trailing label looked for
StripLabel(tp) ==
    IF StartsWith(tp, "delegated-") \/ StartsWith(tp, "independent-")
    THEN Tail(tp)
    ELSE StripSuffix(tp)

\* datetime.now() - timedelta(days=28)
CutoffDate(now) == [d |-> now.d - RetentionDays, t |-> now.t]

\* a variant: the report dated on the cutoff counts as old
OlderOrOnCutoff(report_date, cutoff_date) == ~TimeLess(cutoff_date, report_date)

\* report_date < cutoff_date
OlderThanCutoff(report_date, cutoff_date) == TimeLess(report_date, cutoff_date)

\* html_path: None (<<>>) unless the file is on disk
HtmlPath(files, json_file) ==
    IF WithSuffixHtml(json_file) \in files
    THEN <<Join(ParentName(json_file), WithSuffixHtml(json_file).name)>>
    ELSE <<>>

\* the descriptor appended for one report file
Descriptor(files, json_file, report_date, metadata) ==
    [date |-> StrftimeDate(report_date),
     timestamp |-> TimestampPart(json_file.name),
     formatted_date |-> StrftimeLong(report_date),
     html_path |-> HtmlPath(files, json_file),
     json_path |-> Join(ParentName(json_file), json_file.name)]
    @@ metadata

\* one pass of the loop body: the list of reports after json_file
ScanOne(files, contents, cutoff_date, acc, json_file) ==
    LET parsed == StrptimeTimestamp(StripLabel(TimestampPart(json_file.name)))
    IN  IF parsed = <<>> THEN acc
        ELSE IF OlderThanCutoff(parsed[1], cutoff_date) THEN acc
        ELSE LET metadata == ParseReportMetadata(contents[json_file])
             IN  IF metadata = <<>> THEN acc
                 ELSE Append(acc, Descriptor(files, json_file, parsed[1], metadata[1]))

\* the sort key: x['timestamp']
SortKey(report) == report.timestamp

\* a goes before b under sort(key, reverse=True) only if its key is greater
Before(a, b) == StrLess(SortKey(b), SortKey(a))

\* insert r after every element that does not come after it (the sort is stable)
RECURSIVE InsertSorted(_, _)
InsertSorted(sorted, r) ==
    IF sorted = <<>> THEN <<r>>
    ELSE IF Before(r, Head(sorted)) THEN <<r>> \o sorted
    ELSE <<Head(sorted)>> \o InsertSorted(Tail(sorted), r)

\* reports.sort(key=lambda x: x['timestamp'], reverse=True)
RECURSIVE SortReports(_)
SortReports(rs) ==
    IF rs = <<>> THEN <<>>
    ELSE InsertSorted(SortReports(SubSeq(rs, 1, Len(rs) - 1)), rs[Len(rs)])

\* a variant: the HTML file is listed whether or not it is there
ReportFilesUnchecked(report) ==
    <<[filename |-> JsonName(report.timestamp),
       path |-> Join(report.date, JsonName(report.timestamp)),
       type |-> "json"],
      [filename |-> HtmlName(report.timestamp),
       path |-> Join(report.date, HtmlName(report.timestamp)),
       type |-> "html"],
      [filename |-> JsName(report.timestamp),
       path |-> Join(report.date, JsName(report.timestamp)),
       type |-> "javascript"]>>

\* the files of one manifest entry
ReportFiles(report) ==
    <<[filename |-> JsonName(report.timestamp),
       path |-> Join(report.date, JsonName(report.timestamp)),
       type |-> "json"]>>
    \o (IF report.html_path # <<>>
        THEN <<[filename |-> HtmlName(report.timestamp),
                path |-> Join(report.date, HtmlName(report.timestamp)),
                type |-> "html"]>>
        ELSE <<>>)
    \o <<[filename |-> JsName(report.timestamp),
          path |-> Join(report.date, JsName(report.timestamp)),
          type |-> "javascript"]>>

ManifestEntry(report) ==
    [date |-> report.date,
     timestamp |-> report.timestamp,
     formatted_date |-> report.formatted_date,
     test_duration |-> report.test_duration,
     unique_peers |-> report.unique_peers,
     total_connections |-> report.total_connections,
     success_rate |-> report.success_rate,
     validation_mode |-> report.validation_mode,
     hermes_version |-> report.hermes_version,
     files |-> ReportFiles(report)]

\* generate_reports_manifest
GenerateReportsManifest(rs) ==
    [total_reports |-> Len(rs),
     reports |-> [i \in 1..Len(rs) |-> ManifestEntry(rs[i])]]

(* --------------------------- the Fetcher ------------------------------- *)

\* base_url
BaseUrl == "https://ethpandaops.github.io/hermes-peer-score/"

\* base_url + file_info['path']
FileUrl(path) == [base |-> BaseUrl, path |-> path]

\* a variant: the file is written straight into reports/
LocalPathFlat(path) == Path(<<ReportsDirName>>, path.name)

\* f"reports/{file_info['path']}"
LocalPath(path) == Path(<<ReportsDirName>> \o path.dir, path.name)

\* f"reports/{report['date']}"
DateDir(date) == <<ReportsDirName, date>>

\* open() and json.load() of the manifest succeed
ManifestLoads(file) == file.kind \in {"object", "array"}

\* a variant: an unset CUTOFF_DATE falls back to a default date
ParseCutoffDefault(env) ==
    IF env = <<>> THEN <<[d |-> 0, t |-> 0]>> ELSE StrptimeDate(env[1])

\* datetime.strptime(os.environ.get('CUTOFF_DATE'), '%Y-%m-%d'): <<>> when it
\* raises (the variable is unset, or its value is no date)
ParseCutoff(env) == IF env = <<>> THEN <<>> ELSE StrptimeDate(env[1])

\* the statements before the loop succeed, manifest.get included
PreambleOk(file, env) ==
    ManifestLoads(file) /\ ParseCutoff(env) # <<>> /\ file.kind = "object"

\* report['date'] is there and parses
ReportDateOk(report) ==
    "date" \in DOMAIN report /\ StrptimeDate(report.date) # <<>>

\* a variant: the report dated on the cutoff is skipped too
SkipReportInclusive(report, cutoff_date) ==
    ~TimeLess(cutoff_date, StrptimeDate(report.date)[1])

\* the report is skipped: report_date < cutoff_date
SkipReport(report, cutoff_date) ==
    TimeLess(StrptimeDate(report.date)[1], cutoff_date)

\* validation_mode_stats after one more report
CountMode(stats, report) ==
    LET mode == Get(report, "validation_mode", "unknown")
        key == IF mode \in DOMAIN stats THEN mode ELSE "unknown"
    IN  [stats EXCEPT ![key] = @ + 1]

\* a variant: every finished curl invocation counts
AfterDownloadAnyStatus(n, outcome) == IF outcome # "raised" THEN n + 1 ELSE n

\* files_downloaded after a download that ended with outcome
AfterDownload(n, outcome) == IF outcome = "ok" THEN n + 1 ELSE n

\* downloaded_count after a report of which n files were downloaded
AfterReport(count, n) == IF n > 0 THEN count + 1 ELSE count

(* ------------------------- the inputs of a run ------------------------- *)

\* datetime.now() of the Indexer's run
NowTime == [d |-> RetentionDays + 2, t |-> 1]

\* times around the Indexer's cutoff: on it, just before and after it, and on
\* the days next to it (the later day with the earlier time of day)
AtCutoff == CutoffDate(NowTime)

JustBefore == [d |-> AtCutoff.d, t |-> AtCutoff.t - 1]

JustAfter == [d |-> AtCutoff.d, t |-> AtCutoff.t + 1]

DayBefore == [d |-> AtCutoff.d - 1, t |-> AtCutoff.t + 1]

DayAfter == [d |-> AtCutoff.d + 1, t |-> AtCutoff.t - 1]

Ts(time) == TsPiece(time.d, time.t)

\* the contents of a report file
FullReport ==
    [kind |-> "object",
     data |-> [peers |-> 2, total_connections |-> 4, successful_handshakes |-> 1,
               duration |-> 3 * (NanosPerSecond \div 2), ai_analysis |-> TRUE,
               validation_mode |-> "independent",
               validation_config |-> [hermes_version |-> "v0.0.4"]]]

EmptyReport == [kind |-> "object", data |-> [peers |-> 0]]

\* a file that is no JSON
BrokenReport == [kind |-> "badjson"]

\* a file that is JSON, but no object: [] for one
ArrayReport == [kind |-> "array"]

\* a report file on disk: its directory below reports/, the token of its name,
\* its contents, and whether its .html and -data.js companions are there
Inst(dir, stem, content, html, js) ==
    [dir |-> dir, stem |-> stem, content |-> content, html |-> html, js |-> js]

\* the directory named after the date of the report
Dated(time) == <<StrftimeDate(time)>>

FileUniverse ==
    { Inst(Dated(JustAfter), <<Ts(JustAfter)>>, FullReport, TRUE, TRUE),
      Inst(Dated(DayAfter), <<Ts(DayAfter)>>, EmptyReport, FALSE, TRUE),
      Inst(Dated(DayAfter), <<Lit("delegated-"), Ts(DayAfter)>>, FullReport, TRUE, TRUE),
      Inst(Dated(JustAfter), <<Lit("independent-"), Ts(JustAfter)>>, FullReport, TRUE, TRUE),
      Inst(Dated(JustAfter), <<Ts(JustAfter), Lit("-delegated")>>, EmptyReport, FALSE, FALSE),
      Inst(Dated(AtCutoff), <<Ts(AtCutoff), Lit("-independent")>>, FullReport, TRUE, TRUE),
      Inst(Dated(JustBefore), <<Ts(JustBefore)>>, FullReport, TRUE, TRUE),
      Inst(<<<<Lit("junk")>>>>, <<Lit("junk")>>, FullReport, TRUE, TRUE),
      Inst(Dated(JustAfter), <<Lit("delegated-"), Ts(JustAfter), Lit("-delegated")>>,
           FullReport, TRUE, TRUE),
      Inst(Dated(JustAfter), <<Ts(JustAfter)>>, BrokenReport, TRUE, TRUE),
      Inst(Dated(DayAfter), <<Ts(DayAfter)>>, ArrayReport, TRUE, TRUE),
      Inst(Dated(DayAfter), <<Ts(JustAfter)>>, FullReport, TRUE, TRUE),
      Inst(<<>>, <<Ts(JustAfter)>>, EmptyReport, FALSE, TRUE),
      Inst(Dated(JustAfter), <<Ts(JustAfter), Lit(".json")>>, FullReport, TRUE, TRUE) }

JsonFile(inst) == Path(inst.dir, JsonName(inst.stem))

\* the files one report puts on disk
FilesOf(inst) ==
    {JsonFile(inst)}
    \cup (IF inst.html THEN {WithSuffixHtml(JsonFile(inst))} ELSE {})
    \cup (IF inst.js THEN {Path(inst.dir, JsName(inst.stem))} ELSE {})

\* the report files of a run, in the order the glob yields them: no two at one path
Layouts ==
    { l \in UNION {[1..n -> FileUniverse] : n \in 0..MaxFiles} :
        /\ \A i \in DOMAIN l : GlobMatches(JsonFile(l[i]).name)
        /\ \A i, j \in DOMAIN l : i # j => JsonFile(l[i]) # JsonFile(l[j]) }

\* CUTOFF_DATE: unset, no date, or the date 28 days before the run or the day after
CutoffEnvs ==
    { <<>>, <<<<Lit("junk")>>>>, <<StrftimeDate(AtCutoff)>>, <<StrftimeDate(DayAfter)>> }

\* the files listed by a hand-written manifest entry
Listed(date, stem) ==
    [filename |-> JsonName(stem), path |-> Join(date, JsonName(stem))]

EntryUniverse ==
    { [date |-> StrftimeDate(DayAfter), validation_mode |-> "independent",
       files |-> <<Listed(StrftimeDate(DayAfter), <<Ts(DayAfter)>>),
                   Listed(StrftimeDate(DayAfter), <<Ts(DayAfter), Lit("-delegated")>>)>>],
      [date |-> StrftimeDate(AtCutoff), validation_mode |-> "supervised",
       files |-> <<Listed(StrftimeDate(AtCutoff), <<Ts(AtCutoff)>>)>>],
      [date |-> StrftimeDate(DayBefore),
       files |-> <<Listed(StrftimeDate(DayBefore), <<Ts(DayBefore)>>)>>],
      [date |-> <<Lit("junk")>>,
       files |-> <<Listed(<<Lit("junk")>>, <<Ts(DayAfter)>>)>>],
      [files |-> <<Listed(StrftimeDate(DayAfter), <<Ts(DayAfter)>>)>>],
      [date |-> StrftimeDate(DayAfter),
       files |-> <<[filename |-> JsonName(<<Ts(DayAfter)>>)]>>],
      [date |-> StrftimeDate(DayAfter),
       files |-> <<[path |-> Join(StrftimeDate(DayAfter), JsonName(<<Ts(DayAfter)>>))]>>],
      [date |-> StrftimeDate(DayAfter)] }

\* reports-manifest.json as the Fetcher finds it: absent, no JSON, JSON but no
\* object, or an object with or without its reports
ManifestFiles ==
    { [kind |-> "missing"], [kind |-> "badjson"], [kind |-> "array"],
      [kind |-> "object", data |-> [total_reports |-> 0]] }
    \cup { [kind |-> "object", data |-> [reports |-> es]] :
             es \in UNION {[1..n -> EntryUniverse] : n \in 0..MaxEntries} }

(* ------------------------------ the state ------------------------------ *)

VARIABLES
    files,              \* the files under reports/ where the Indexer runs
    contents,           \* what each report file holds
    found,              \* the report files, in the order the glob yields them
    template_ok,        \* index-template.html can be read
    reports_dir,        \* the directory reports/ exists
    ipc,                \* the Indexer: "off", "scan", "done", "crashed"
    idx,                \* the report file the loop is at
    reports,            \* the list of report descriptors
    index_html,         \* reports/index.html, <<>> until written
    manifest_file,      \* reports-manifest.json, as written and as fetched
    cutoff_env,         \* CUTOFF_DATE of the Fetcher's run
    fpc,                \* the Fetcher: "start", "loop", "files", "returned", "exited"
    cutoff_date,        \* the parsed CUTOFF_DATE
    manifest_reports,   \* manifest.get('reports', [])
    ri,                 \* the report entry the outer loop is at
    fi,                 \* the file the inner loop is at
    files_downloaded,
    downloaded_count,
    validation_mode_stats,
    made_dirs,          \* the directories os.makedirs has created
    attempts,           \* the curl invocations, in order
    ok_reports,         \* the entries of which a download returned status 0
    preserved,          \* the printed 'Total reports preserved', <<>> until printed
    success,            \* what download_reports_from_manifest returned
    exit_code           \* the status the process ended with, <<>> while it runs

ivars == <<files, contents, found, template_ok, reports_dir, ipc, idx, reports,
           index_html>>

fvars == <<cutoff_env, fpc, cutoff_date, manifest_reports, ri, fi, files_downloaded,
           downloaded_count, validation_mode_stats, made_dirs, attempts, ok_reports,
           preserved, success, exit_code>>

vars == <<ivars, manifest_file, fvars>>

FetcherInit ==
    /\ cutoff_env = <<>>
    /\ fpc = "start"
    /\ cutoff_date = [d |-> 0, t |-> 0]
    /\ manifest_reports = <<>>
    /\ ri = 1
    /\ fi = 1
    /\ files_downloaded = 0
    /\ downloaded_count = 0
    /\ validation_mode_stats = [delegated |-> 0, independent |-> 0, unknown |-> 0]
    /\ made_dirs = {}
    /\ attempts = <<>>
    /\ ok_reports = {}
    /\ preserved = <<>>
    /\ success = <<>>
    /\ exit_code = <<>>

\* an Indexer run over some report files; its manifest is fetched afterwards
InitIndexer ==
    /\ \E l \in Layouts :
         /\ files = UNION {FilesOf(l[i]) : i \in DOMAIN l}
         /\ contents = [p \in {JsonFile(l[i]) : i \in DOMAIN l} |->
                          l[CHOOSE i \in DOMAIN l : JsonFile(l[i]) = p].content]
         /\ found = [i \in DOMAIN l |-> JsonFile(l[i])]
         /\ reports_dir \in (IF l = <<>> THEN BOOLEAN ELSE {TRUE})
    /\ template_ok \in BOOLEAN
    /\ ipc = "scan"
    /\ idx = 1
    /\ reports = <<>>
    /\ index_html = <<>>
    /\ manifest_file = [kind |-> "missing"]
    /\ FetcherInit

\* a Fetcher run over a manifest that is already there
InitFetcher ==
    /\ files = {}
    /\ contents = <<>>
    /\ found = <<>>
    /\ template_ok = TRUE
    /\ reports_dir = TRUE
    /\ ipc = "off"
    /\ idx = 1
    /\ reports = <<>>
    /\ index_html = <<>>
    /\ manifest_file \in ManifestFiles
    /\ FetcherInit

Init == InitIndexer \/ InitFetcher

(* ------------------------- the Indexer's steps ------------------------- *)

\* one pass of the loop over the report files
IndexScan ==
    /\ ipc = "scan"
    /\ idx <= Len(found)
    /\ reports' = ScanOne(files, contents, CutoffDate(NowTime), reports, found[idx])
    /\ idx' = idx + 1
    /\ UNCHANGED <<files, contents, found, template_ok, reports_dir, ipc, index_html,
                   manifest_file, fvars>>

\* a variant: without a report the template's latest-report section stays
LatestReportBlockKept(rs) ==
    IF rs # <<>> THEN <<rs[1]>> ELSE <<[formatted_date |-> <<Lit("junk")>>]>>

\* the latest-report block: generate_latest_report_html(reports[0]) if there
\* is a report, and otherwise the section is removed (<<>>)
LatestReportBlock(rs) == IF rs # <<>> THEN <<rs[1]>> ELSE <<>>

\* one card of the grid
ReportCard(report) ==
    [date |-> report.date,
     unique_peers |-> report.unique_peers,
     total_connections |-> report.total_connections,
     success_rate |-> report.success_rate,
     validation_mode |-> report.validation_mode,
     hermes_version |-> report.hermes_version,
     formatted_date |-> report.formatted_date,
     test_duration |-> report.test_duration,
     html_link |-> report.html_path,
     json_link |-> report.json_path]

\* generate_reports_grid_html: the cards inside the grid's div, one per report
GenerateReportsGridHtml(rs) == [i \in 1..Len(rs) |-> ReportCard(rs[i])]

\* the page: the count, the latest-report block and the grid, put into a
\* template that has the placeholders for them
RenderIndex(rs) ==
    [total_reports |-> Len(rs),
     latest_report |-> LatestReportBlock(rs),
     cards |-> GenerateReportsGridHtml(rs)]

\* after the loop: sort, read the template, write the page and the manifest.
\* Without the template, or without reports/ to write into, open() raises and
\* nothing is written.
IndexFinish ==
    /\ ipc = "scan"
    /\ idx > Len(found)
    /\ reports' = SortReports(reports)
    /\ IF template_ok /\ reports_dir
       THEN /\ index_html' = <<RenderIndex(reports')>>
            /\ manifest_file' = [kind |-> "object",
                                 data |-> GenerateReportsManifest(reports')]
            /\ ipc' = "done"
       ELSE /\ ipc' = "crashed"
            /\ UNCHANGED <<index_html, manifest_file>>
    /\ UNCHANGED <<files, contents, found, template_ok, reports_dir, idx, fvars>>

(* ------------------------- the Fetcher's steps ------------------------- *)

\* the outer except: 'Error processing manifest', return False
Abort ==
    /\ fpc' = "returned"
    /\ success' = <<FALSE>>

\* what a curl invocation can come to: status 0, another status, or
\* subprocess.run raising (no curl to run)
Outcomes == {"ok", "failed", "raised"}

\* the statements before the loop: load the manifest, parse CUTOFF_DATE
FetchStart ==
    /\ fpc = "start"
    /\ ipc # "scan"
    /\ \E env \in CutoffEnvs :
         /\ cutoff_env' = env
         /\ IF PreambleOk(manifest_file, env)
            THEN /\ cutoff_date' = ParseCutoff(env)[1]
                 /\ manifest_reports' = Get(manifest_file.data, "reports", <<>>)
                 /\ fpc' = "loop"
                 /\ UNCHANGED success
            ELSE /\ Abort
                 /\ UNCHANGED <<cutoff_date, manifest_reports>>
    /\ UNCHANGED <<ivars, manifest_file, ri, fi, files_downloaded, downloaded_count,
                   validation_mode_stats, made_dirs, attempts, ok_reports, preserved,
                   exit_code>>

\* the head of the outer loop's body, up to os.makedirs
FetchReport ==
    /\ fpc = "loop"
    /\ ri <= Len(manifest_reports)
    /\ LET report == manifest_reports[ri]
       IN  IF ~ReportDateOk(report)
           THEN /\ Abort
                /\ UNCHANGED <<ri, fi, files_downloaded, validation_mode_stats, made_dirs>>
           ELSE IF SkipReport(report, cutoff_date)
           THEN /\ ri' = ri + 1
                /\ UNCHANGED <<fpc, success, fi, files_downloaded,
                               validation_mode_stats, made_dirs>>
           ELSE /\ validation_mode_stats' = CountMode(validation_mode_stats, report)
                /\ made_dirs' = made_dirs \cup {DateDir(report.date)}
                /\ files_downloaded' = 0
                /\ fi' = 1
                /\ fpc' = "files"
                /\ UNCHANGED <<ri, success>>
    /\ UNCHANGED <<ivars, manifest_file, cutoff_env, cutoff_date, manifest_reports,
                   downloaded_count, attempts, ok_reports, preserved, exit_code>>

\* one pass of the inner loop: one curl invocation.  Every branch prints
\* file_info['filename']; without that key the print raises, in the handler
\* of the inner try as well, and the outer handler ends the run.
FetchFile ==
    /\ fpc = "files"
    /\ fi <= Len(Get(manifest_reports[ri], "files", <<>>))
    /\ LET file_info == Get(manifest_reports[ri], "files", <<>>)[fi]
       IN  IF "path" \notin DOMAIN file_info
           THEN /\ Abort
                /\ UNCHANGED <<fi, files_downloaded, attempts, ok_reports>>
           ELSE \E outcome \in Outcomes :
                  /\ attempts' = Append(attempts,
                                        [report |-> ri,
                                         url |-> FileUrl(file_info.path),
                                         local |-> LocalPath(file_info.path)])
                  /\ files_downloaded' = AfterDownload(files_downloaded, outcome)
                  /\ ok_reports' = IF outcome = "ok" THEN ok_reports \cup {ri}
                                   ELSE ok_reports
                  /\ IF "filename" \in DOMAIN file_info
                     THEN /\ fi' = fi + 1
                          /\ UNCHANGED <<fpc, success>>
                     ELSE /\ Abort
                          /\ UNCHANGED fi
    /\ UNCHANGED <<ivars, manifest_file, cutoff_env, cutoff_date, manifest_reports, ri,
                   downloaded_count, validation_mode_stats, made_dirs, preserved,
                   exit_code>>

\* after the inner loop: the report counts if a file of it was downloaded
FetchReportEnd ==
    /\ fpc = "files"
    /\ fi > Len(Get(manifest_reports[ri], "files", <<>>))
    /\ downloaded_count' = AfterReport(downloaded_count, files_downloaded)
    /\ ri' = ri + 1
    /\ fpc' = "loop"
    /\ UNCHANGED <<ivars, manifest_file, cutoff_env, cutoff_date, manifest_reports, fi,
                   files_downloaded, validation_mode_stats, made_dirs, attempts,
                   ok_reports, preserved, success, exit_code>>

\* after the outer loop: print the totals, return True
FetchFinish ==
    /\ fpc = "loop"
    /\ ri > Len(manifest_reports)
    /\ preserved' = <<downloaded_count>>
    /\ success' = <<TRUE>>
    /\ fpc' = "returned"
    /\ UNCHANGED <<ivars, manifest_file, cutoff_env, cutoff_date, manifest_reports, ri,
                   fi, files_downloaded, downloaded_count, validation_mode_stats,
                   made_dirs, attempts, ok_reports, exit_code>>

\* a variant: sys.exit(0 if success else 1)
ExitStatusOfResult(returned) == IF returned = <<TRUE>> THEN 0 ELSE 1

\* the status given to sys.exit, whatever the function returned
ExitStatus(returned) == 0

\* __main__: sys.exit(0)
FetchExit ==
    /\ fpc = "returned"
    /\ exit_code' = <<ExitStatus(success)>>
    /\ fpc' = "exited"
    /\ UNCHANGED <<ivars, manifest_file, cutoff_env, cutoff_date, manifest_reports, ri,
                   fi, files_downloaded, downloaded_count, validation_mode_stats,
                   made_dirs, attempts, ok_reports, preserved, success>>

Next ==
    \/ IndexScan
    \/ IndexFinish
    \/ FetchStart
    \/ FetchReport
    \/ FetchFile
    \/ FetchReportEnd
    \/ FetchFinish
    \/ FetchExit

Spec == Init /\ [][Next]_vars

\* the run is scheduled until it ends
FairSpec == Spec /\ WF_vars(Next)

(* ------------------------- what the claims use ------------------------- *)

FetcherEnded == fpc \in {"returned", "exited"}

\* CUTOFF_DATE was set to a date
ValidCutoff == cutoff_env # <<>> /\ Len(cutoff_env[1]) = 1 /\ cutoff_env[1][1].k = "date"

\* a manifest entry with a date, and a list of files that each have a path and a name
WellFormedEntry(e) ==
    /\ "date" \in DOMAIN e
    /\ Len(e.date) = 1
    /\ e.date[1].k = "date"
    /\ "files" \in DOMAIN e
    /\ \A i \in DOMAIN e.files : {"path", "filename"} \subseteq DOMAIN e.files[i]

WellFormedManifest ==
    /\ manifest_file.kind = "object"
    /\ "reports" \in DOMAIN manifest_file.data
    /\ \A i \in DOMAIN manifest_file.data.reports :
         WellFormedEntry(manifest_file.data.reports[i])

\* date >= cutoff, of a well-formed entry under a valid cutoff
OnOrAfterCutoff(e) == e.date[1].d >= cutoff_env[1][1].d

\* the paths of the files of the entries on or after the cutoff, in manifest order
RECURSIVE DuePaths(_)
DuePaths(entries) ==
    IF entries = <<>> THEN <<>>
    ELSE (IF OnOrAfterCutoff(Head(entries))
          THEN [i \in DOMAIN Head(entries).files |-> Head(entries).files[i].path]
          ELSE <<>>)
         \o DuePaths(Tail(entries))

\* the entries a curl invocation was made for
Attempted == {attempts[i].report : i \in DOMAIN attempts}

(* ------------------------------- claims -------------------------------- *)

\* C1: a Fetcher run always ends, and with exit status 0: whatever state the
\* run is in, either it has exited with status 0 or it can take another step
\* (each step moves the run forward, so the run ends), also when the function
\* returned False.
C1_AlwaysExitsZero ==
    /\ exit_code # <<>> => exit_code = <<0>>
    /\ fpc = "exited" => exit_code = <<0>>
    /\ fpc # "exited" => ENABLED Next

\* C1 witness: the function returned False and the process ended with status 0
C1_Witness == fpc = "exited" /\ success = <<FALSE>> /\ exit_code = <<0>>

\* C2: with a well-formed manifest and a valid CUTOFF_DATE, the run that has
\* ended has created reports/<date> for exactly the entries on or after the
\* cutoff, and has made one curl invocation per listed file of those entries, in
\* manifest order, and none for the earlier entries.
C2_DownloadsDueReports ==
    (FetcherEnded /\ WellFormedManifest /\ ValidCutoff) =>
        /\ success = <<TRUE>>
        /\ made_dirs = { <<<<Lit("reports")>>, manifest_file.data.reports[i].date>> :
                           i \in { j \in DOMAIN manifest_file.data.reports :
                                     OnOrAfterCutoff(manifest_file.data.reports[j]) } }
        /\ [i \in DOMAIN attempts |-> attempts[i].url.path]
             = DuePaths(manifest_file.data.reports)

\* C2 witness: a hand-written manifest with an entry dated on the cutoff, which
\* was downloaded, and an earlier entry, which was not
C2_Witness ==
    /\ ipc = "off" /\ FetcherEnded /\ WellFormedManifest /\ ValidCutoff
    /\ \E i, j \in DOMAIN manifest_file.data.reports :
         /\ manifest_file.data.reports[i].date = cutoff_env[1]
         /\ i \in Attempted
         /\ manifest_file.data.reports[j].date[1].d < cutoff_env[1][1].d
         /\ j \notin Attempted

\* C3: a download that fails or raises is not counted and stops nothing: while
\* a report's files are downloaded, files_downloaded is positive exactly if a
\* download of that report returned status 0; the reports counted so far are
\* the finished ones with such a download; the printed total is their number;
\* and a well-formed run prints its total whatever the downloads came to.
C3_PreservedCount ==
    /\ fpc = "files" => ((files_downloaded > 0) <=> (ri \in ok_reports))
    /\ fpc = "files" => downloaded_count = Cardinality(ok_reports \ {ri})
    /\ fpc = "loop" => downloaded_count = Cardinality(ok_reports)
    /\ preserved # <<>> => preserved[1] = Cardinality(ok_reports)
    /\ (FetcherEnded /\ WellFormedManifest /\ ValidCutoff) =>
           /\ preserved # <<>>
           /\ Len(attempts) = Len(DuePaths(manifest_file.data.reports))

\* C3 witness: the total was printed; one report was counted, and another, whose
\* only file was not downloaded, was not
C3_Witness ==
    /\ preserved # <<>>
    /\ ok_reports # {}
    /\ \E i \in Attempted \ ok_reports :
         /\ Len(manifest_reports[i].files) = 1
         /\ preserved[1] < Cardinality(Attempted)

\* C4: an error while handling one report never keeps the later ones from being
\* handled: once the manifest and the cutoff are loaded the Fetcher's loop
\* reaches the last entry, and the Indexer's loop reaches the last report file.
C4_ErrorsIsolated ==
    /\ (FetcherEnded /\ PreambleOk(manifest_file, cutoff_env)) =>
           ri >= Len(manifest_reports)
    /\ ipc \in {"done", "crashed"} => idx > Len(found)

\* C5: when the manifest cannot be loaded or CUTOFF_DATE is unset or no date,
\* the function returns False, and no directory was created and no download
\* attempted.
C5_FailedPreambleIsNoOp ==
    (FetcherEnded /\ (manifest_file.kind \in {"missing", "badjson"} \/ ~ValidCutoff)) =>
        /\ success = <<FALSE>>
        /\ made_dirs = {}
        /\ attempts = <<>>

\* C5 witness: a manifest with a report to download, and CUTOFF_DATE unset
C5_Witness ==
    /\ FetcherEnded
    /\ cutoff_env = <<>>
    /\ WellFormedManifest
    /\ manifest_file.data.reports # <<>>

\* the token of a report file's name: the name without 'peer-score-report-' and '.json'
NameToken(name) == SelectSeq(name, LAMBDA p : p.k \notin {"peer-score-report-", ".json"})

\* the token is a timestamp, bare or with one leading or one trailing label
TokenParses(tok) ==
    \/ Len(tok) = 1 /\ tok[1].k = "ts"
    \/ Len(tok) = 2 /\ tok[1].k \in PrefixLabels /\ tok[2].k = "ts"
    \/ Len(tok) = 2 /\ tok[1].k = "ts" /\ tok[2].k \in Range(SuffixLabels)

\* the timestamp of a token that parses
TokenTime(tok) == IF tok[1].k = "ts" THEN tok[1] ELSE tok[2]

\* not older than now - 28 days
WithinRetention(time) ==
    \/ time.d > NowTime.d - RetentionDays
    \/ time.d = NowTime.d - RetentionDays /\ time.t >= NowTime.t

\* the report file is to be retained, as the claim has it: the JSON parses
RetainedIfJsonParses(f) ==
    /\ TokenParses(NameToken(f.name))
    /\ WithinRetention(TokenTime(NameToken(f.name)))
    /\ contents[f].kind # "badjson"

\* the report file is to be retained: the metadata can be extracted from it
RetainedIfMetadata(f) ==
    /\ TokenParses(NameToken(f.name))
    /\ WithinRetention(TokenTime(NameToken(f.name)))
    /\ contents[f].kind = "object"

\* the path a descriptor records for a report file
RecordedPath(f) == Path(<<ParentName(f)>>, f.name)

\* the report files the loop has been through
Scanned == 1..(idx - 1)

\* the date and time of a report descriptor
TimeOf(r) == [d |-> r.formatted_date[1].d, t |-> r.formatted_date[1].t]

\* C6 as claimed: the retained list holds exactly one descriptor for every
\* scanned report file whose token parses, whose timestamp is within the 28
\* days and whose JSON parses, and none for any other file.
C6_RetainedIfJsonParses ==
    \A f \in Range(found) :
        Cardinality({i \in DOMAIN reports : reports[i].json_path = RecordedPath(f)})
          = Cardinality({k \in Scanned : /\ RecordedPath(found[k]) = RecordedPath(f)
                                         /\ RetainedIfJsonParses(found[k])})

\* C6 as amended: the retained list holds exactly one descriptor for every
\* scanned report file whose token parses, whose timestamp is within the 28
\* days and from whose JSON the metadata can be extracted (it parses, and to an
\* object), and none for any other file; no retained report is older than the
\* cutoff; and the loop goes on to the last file.
C6_RetainedReports ==
    /\ \A f \in Range(found) :
         Cardinality({i \in DOMAIN reports : reports[i].json_path = RecordedPath(f)})
           = Cardinality({k \in Scanned : /\ RecordedPath(found[k]) = RecordedPath(f)
                                          /\ RetainedIfMetadata(found[k])})
    /\ Len(reports) = Cardinality({k \in Scanned : RetainedIfMetadata(found[k])})
    /\ \A i \in DOMAIN reports : WithinRetention(TimeOf(reports[i]))
    /\ ipc \in {"done", "crashed"} => idx = Len(found) + 1

\* C6 witness: the run is over; a report dated on the cutoff was retained, and
\* a recent file whose JSON parses, but to no object, was skipped
C6_Witness ==
    /\ ipc = "done"
    /\ \E i \in DOMAIN reports : TimeOf(reports[i]) = AtCutoff
    /\ \E k \in DOMAIN found :
         /\ RetainedIfJsonParses(found[k])
         /\ ~RetainedIfMetadata(found[k])
    /\ Len(reports) < Len(found)

\* C7: after the sort the reports are newest first: no report comes before one
\* with a later timestamp, so the first has the latest.
C7_NewestFirst ==
    ipc \in {"done", "crashed"} =>
        \A i, j \in DOMAIN reports :
            i < j => ~TimeLess(TimeOf(reports[i]), TimeOf(reports[j]))

\* C8: every path of the manifest's files names a file that is under reports/
C8_PathsResolve ==
    ipc = "done" =>
        \A i \in DOMAIN manifest_file.data.reports :
            \A k \in DOMAIN manifest_file.data.reports[i].files :
                manifest_file.data.reports[i].files[k].path \in files

\* the report file a descriptor was made from
SourceOf(r) == CHOOSE f \in Range(found) : RecordedPath(f) = r.json_path

\* the .html beside a report file is on disk
HtmlOnDisk(f) ==
    Path(f.dir, SubSeq(f.name, 1, Len(f.name) - 1) \o <<Lit(".html")>>) \in files

\* the types of an entry's files
Types(e) == [k \in DOMAIN e.files |-> e.files[k].type]

\* C9: the manifest has one entry per retained report, in the order of the
\* sorted list, and total_reports is their number; an entry lists a JSON file,
\* then an HTML file exactly if the report's .html was on disk, then a JS data
\* file; and its summary fields are those of the descriptor.
C9_ManifestMirrorsReports ==
    ipc = "done" =>
        LET m == manifest_file.data
        IN  /\ m.total_reports = Len(m.reports)
            /\ Len(m.reports) = Len(reports)
            /\ \A i \in DOMAIN reports :
                 /\ Types(m.reports[i]) =
                      (IF HtmlOnDisk(SourceOf(reports[i]))
                       THEN <<"json", "html", "javascript">>
                       ELSE <<"json", "javascript">>)
                 /\ \A key \in {"date", "timestamp", "formatted_date", "test_duration",
                                "unique_peers", "total_connections", "success_rate"} :
                      m.reports[i][key] = reports[i][key]

\* C9 witness: a manifest of two reports, one with its .html and one without
C9_Witness ==
    /\ ipc = "done"
    /\ Len(reports) = 2
    /\ \E i, j \in DOMAIN manifest_file.data.reports :
         /\ Len(manifest_file.data.reports[i].files) = 3
         /\ Len(manifest_file.data.reports[j].files) = 2
         /\ reports[i].unique_peers # reports[j].unique_peers

\* the file of a manifest entry that an attempt was made for
ListedFor(a) ==
    { f \in Range(manifest_file.data.reports[a.report].files) :
        a.url = [base |-> BaseUrl, path |-> f.path] }

\* C10: for a manifest the Indexer wrote, every curl invocation of the Fetcher
\* asks for the base URL followed by the path of a file of the entry and writes
\* to reports/ followed by that path; the directory of that destination is
\* reports/<date> of the entry, which has been created; and a run that returns
\* True has asked for every file of every entry it did not skip.
C10_RoundTrip ==
    ipc = "done" =>
        /\ \A n \in DOMAIN attempts :
             LET a == attempts[n]
                 e == manifest_file.data.reports[a.report]
             IN  /\ ListedFor(a) # {}
                 /\ \A f \in ListedFor(a) :
                      a.local = [dir |-> <<<<Lit("reports")>>>> \o f.path.dir,
                                 name |-> f.path.name]
                 /\ a.local.dir = <<<<Lit("reports")>>, e.date>>
                 /\ a.local.dir \in made_dirs
        /\ success = <<TRUE>> =>
             [n \in DOMAIN attempts |-> attempts[n].url.path]
               = DuePaths(manifest_file.data.reports)

\* C10 witness: the Fetcher has gone through a manifest the Indexer wrote and
\* asked for the three files of a report
C10_Witness ==
    /\ ipc = "done"
    /\ success = <<TRUE>>
    /\ Len(attempts) >= 3

\* C11 as claimed: an Indexer run that retains no report completes, with a page
\* that has no latest-report block and no card, and a manifest of no report.
C11_EmptyRunCompletes ==
    (ipc \in {"done", "crashed"} /\ reports = <<>>) =>
        /\ ipc = "done"
        /\ index_html # <<>>
        /\ manifest_file.kind = "object"

\* C11 as amended: provided index-template.html can be read and reports/
\* exists, an Indexer run that retains no report completes; its page has the
\* count 0, no latest-report block and no card, and its manifest has
\* total_reports 0 and an empty list of reports.
C11_EmptyIndex ==
    (ipc \in {"done", "crashed"} /\ reports = <<>> /\ template_ok /\ reports_dir) =>
        /\ ipc = "done"
        /\ index_html # <<>>
        /\ index_html[1].total_reports = 0
        /\ index_html[1].latest_report = <<>>
        /\ index_html[1].cards = <<>>
        /\ manifest_file.kind = "object"
        /\ manifest_file.data.total_reports = 0
        /\ manifest_file.data.reports = <<>>

\* C11 witness: the run completed without a report, though report files were
\* found: one too old, one that is no JSON or has no timestamp in its name
C11_Witness ==
    /\ ipc = "done"
    /\ reports = <<>>
    /\ Len(found) = 2
    /\ \E k \in DOMAIN found :
         /\ TokenParses(NameToken(found[k].name))
         /\ ~WithinRetention(TokenTime(NameToken(found[k].name)))
    /\ \E k \in DOMAIN found :
         \/ ~TokenParses(NameToken(found[k].name))
         \/ contents[found[k]].kind # "object"

====
